---- MODULE Spec2Model ----
(***************************************************************************)
(* Model of the chat screen of AnagoDev-app, src/app/(tabs)/chatbot.tsx:   *)
(* the send mutation (sendMessage, messageMutation.onSuccess / onError),   *)
(* the cart fan-out, startNewConversation and loadConversation.            *)
(*                                                                         *)
(* JavaScript values are modelled as records of one shape (JVal), so that  *)
(* a reply that arrives as an object and a reply that arrives as a JSON    *)
(* string go through the code's two paths.  A JavaScript string is a       *)
(* sequence of lexemes (TLA+ strings); JSON text is such a sequence too,   *)
(* and JSONParse is a recursive-descent parser over it.                    *)
(*                                                                         *)
(* The handlers of the component are its interface: each may be called in  *)
(* any state (the `disabled` and `editable` props of the views are not     *)
(* relied on), and each reads the state of the moment it is called.  A     *)
(* handler and the promise reactions it triggers at once are one step.     *)
(* Of the console, the lines the handlers of the send mutation write are   *)
(* kept with the last settled send.  Not modelled: the conversations query *)
(* (its invalidation at line 153) and the auth query (the screen is        *)
(* mounted and connected).                                                 *)
(*                                                                         *)
(* Specifications of the chat screen: Spec, the dispatcher with its        *)
(* handlers in any order and a few replies; ReplySpec, one send with every *)
(* reply of the bounded domain, every catalog and the fan-out of the cart  *)
(* calls; FanOutSpec, one send with the replies that issue cart calls,     *)
(* under the fairness that every cart call settles; RetrySpec, sends that  *)
(* settle under fairness; BrowseSpec, conversations loaded and started     *)
(* around one `do` reply.                                                  *)
(*                                                                         *)
(* Two other screens are modelled at the end of the module, each with its  *)
(* own variables and specification: the one-time code of the login screen  *)
(* (src/app/auth/login.jsx, OtpSpec) and the cache of the list of products *)
(* (src/unnamed/part_002, ListSpec).                                       *)
(***************************************************************************)
EXTENDS Integers, Sequences, FiniteSets, TLC

(***************************************************************************)
(* Bounds of the model.                                                    *)
(***************************************************************************)
\* accepted sends in one run of the dispatcher specification
MaxSends == 2
\* product references in the product list of a reply, in the reply specification
MaxRefs == 2

(***************************************************************************)
(* JavaScript / JSON values.                                               *)
(***************************************************************************)
JUndef == [ty |-> "undef", s |-> <<>>, n |-> 0, keys |-> <<>>, items |-> <<>>]
JNull == [ty |-> "null", s |-> <<>>, n |-> 0, keys |-> <<>>, items |-> <<>>]
JStr(t) == [ty |-> "str", s |-> t, n |-> 0, keys |-> <<>>, items |-> <<>>]
JNum(k) == [ty |-> "num", s |-> <<>>, n |-> k, keys |-> <<>>, items |-> <<>>]
JArr(xs) == [ty |-> "arr", s |-> <<>>, n |-> 0, keys |-> <<>>, items |-> xs]
JObj(ks, xs) == [ty |-> "obj", s |-> <<>>, n |-> 0, keys |-> ks, items |-> xs]

\* a one-lexeme string, the usual case
Str(a) == JStr(<<a>>)

\* o.k : the value of the last member named k, undefined when there is none
\* (and undefined for a property of a string or a number)
Get(o, k) ==
  LET idx == {i \in 1..Len(o.keys) : o.keys[i] = <<k>>}
  IN IF o.ty = "obj" /\ idx # {}
       THEN o.items[CHOOSE i \in idx : \A j \in idx : j <= i]
       ELSE JUndef

\* reading a property of null or undefined throws a TypeError
ThrowsOnGet(o) == o.ty \in {"null", "undef"}

\* JavaScript truthiness
Truthy(v) ==
  CASE v.ty \in {"undef", "null"} -> FALSE
    [] v.ty = "str" -> v.s # <<>>
    [] v.ty = "num" -> v.n # 0
    [] OTHER -> TRUE

\* { ...o, k: v }
SetKey(o, k, v) ==
  LET idx == {i \in 1..Len(o.keys) : o.keys[i] = <<k>>}
  IN IF idx # {}
       THEN JObj(o.keys, [i \in 1..Len(o.items) |-> IF i \in idx THEN v ELSE o.items[i]])
       ELSE JObj(Append(o.keys, <<k>>), Append(o.items, v))

(***************************************************************************)
(* JSON text: lexemes.  Q is the double quote; a number is one lexeme.     *)
(***************************************************************************)
Q == "\""
NumLex == <<"0", "1", "2", "3", "4", "5", "6", "7", "8", "9">>
IsNumLex(x) == \E i \in 1..Len(NumLex) : NumLex[i] = x
NumOf(x) == (CHOOSE i \in 1..Len(NumLex) : NumLex[i] = x) - 1

RECURSIVE JoinWith(_, _)
JoinWith(parts, sep) ==
  IF parts = <<>> THEN <<>>
  ELSE IF Len(parts) = 1 THEN parts[1]
  ELSE parts[1] \o <<sep>> \o JoinWith(Tail(parts), sep)

\* JSON.stringify (members whose value is undefined are left out)
RECURSIVE JSONStringify(_)
JSONStringify(v) ==
  CASE v.ty = "str" -> <<Q>> \o v.s \o <<Q>>
    [] v.ty = "num" -> <<NumLex[v.n + 1]>>
    [] v.ty = "null" -> <<"null">>
    [] v.ty = "arr" ->
         <<"[">> \o JoinWith([i \in 1..Len(v.items) |-> JSONStringify(v.items[i])], ",")
                 \o <<"]">>
    [] v.ty = "obj" ->
         LET keep == SelectSeq([i \in 1..Len(v.keys) |-> i],
                               LAMBDA i : v.items[i].ty # "undef")
         IN <<"{">> \o JoinWith([j \in 1..Len(keep) |->
                                   <<Q>> \o v.keys[keep[j]] \o <<Q, ":">>
                                     \o JSONStringify(v.items[keep[j]])], ",")
                    \o <<"}">>
    [] OTHER -> <<>>

\* the parser's results: a value and the text left, or a syntax error
POk(v, rest) == [ok |-> TRUE, val |-> v, rest |-> rest]
PFail == [ok |-> FALSE, val |-> JUndef, rest |-> <<>>]

\* the lexemes of a string literal's body: up to the closing quote
RECURSIVE StrBody(_)
StrBody(t) ==
  IF t = <<>> THEN [ok |-> FALSE, body |-> <<>>, rest |-> <<>>]
  ELSE IF t[1] = Q THEN [ok |-> TRUE, body |-> <<>>, rest |-> Tail(t)]
  ELSE LET r == StrBody(Tail(t))
       IN [ok |-> r.ok, body |-> <<t[1]>> \o r.body, rest |-> r.rest]

RECURSIVE ParseValue(_), ParseElems(_, _), ParseMembers(_, _, _)
ParseValue(t) ==
  IF t = <<>> THEN PFail
  ELSE IF t[1] = Q THEN
    LET r == StrBody(Tail(t)) IN IF r.ok THEN POk(JStr(r.body), r.rest) ELSE PFail
  ELSE IF IsNumLex(t[1]) THEN POk(JNum(NumOf(t[1])), Tail(t))
  ELSE IF t[1] = "null" THEN POk(JNull, Tail(t))
  ELSE IF t[1] = "[" THEN
    IF Len(t) >= 2 /\ t[2] = "]" THEN POk(JArr(<<>>), SubSeq(t, 3, Len(t)))
    ELSE ParseElems(Tail(t), <<>>)
  ELSE IF t[1] = "{" THEN
    IF Len(t) >= 2 /\ t[2] = "}" THEN POk(JObj(<<>>, <<>>), SubSeq(t, 3, Len(t)))
    ELSE ParseMembers(Tail(t), <<>>, <<>>)
  ELSE PFail

\* the elements of an array after "[" or ",", up to "]"
ParseElems(t, acc) ==
  LET r == ParseValue(t)
  IN IF ~r.ok \/ r.rest = <<>> THEN PFail
     ELSE IF r.rest[1] = "," THEN ParseElems(Tail(r.rest), Append(acc, r.val))
     ELSE IF r.rest[1] = "]" THEN POk(JArr(Append(acc, r.val)), Tail(r.rest))
     ELSE PFail

\* the members of an object after "{" or ",", up to "}"
ParseMembers(t, ks, xs) ==
  IF t = <<>> \/ t[1] # Q THEN PFail
  ELSE
    LET k == StrBody(Tail(t))
    IN IF ~k.ok \/ k.rest = <<>> \/ k.rest[1] # ":" THEN PFail
       ELSE
         LET r == ParseValue(Tail(k.rest))
         IN IF ~r.ok \/ r.rest = <<>> THEN PFail
            ELSE IF r.rest[1] = "," THEN
              ParseMembers(Tail(r.rest), Append(ks, k.body), Append(xs, r.val))
            ELSE IF r.rest[1] = "}" THEN
              POk(JObj(Append(ks, k.body), Append(xs, r.val)), Tail(r.rest))
            ELSE PFail

\* JSON.parse: ok with the value, or not ok (a SyntaxError is thrown)
JSONParse(t) ==
  LET r == ParseValue(t)
  IN IF r.ok /\ r.rest = <<>> THEN POk(r.val, <<>>) ELSE PFail

(***************************************************************************)
(* Strings of the screen.                                                  *)
(***************************************************************************)
\* String.prototype.trim on a lexeme sequence: " " is the whitespace lexeme
RECURSIVE TrimLeft(_)
TrimLeft(t) == IF t # <<>> /\ t[1] = " " THEN TrimLeft(Tail(t)) ELSE t
RECURSIVE TrimRight(_)
TrimRight(t) ==
  IF t # <<>> /\ t[Len(t)] = " " THEN TrimRight(SubSeq(t, 1, Len(t) - 1)) ELSE t
Trim(t) == TrimRight(TrimLeft(t))

Greeting == Str("Bonjour ! Comment puis-je vous aider avec nos solutions de cybersecurite aujourd'hui ?")
Apology == Str("Desole, je n'ai pas pu traiter votre demande. Veuillez reessayer plus tard.")

\* the absent conversation id (null)
Null == 0

(***************************************************************************)
(* Messages of the transcript: interface Message.  A key the code does not *)
(* set, or sets to undefined, holds JUndef.                                *)
(***************************************************************************)
Msg(role, content, event, productList, action, page) ==
  [role |-> role, content |-> content, event |-> event,
   productList |-> productList, action |-> action, page |-> page]
PlainMsg(role, content) == Msg(role, content, JUndef, JUndef, JUndef, JUndef)

(***************************************************************************)
(* messageMutation.onSuccess, as a function of the reply and the catalog.  *)
(***************************************************************************)
\* lines 156-172: the reply as it is used after the object / JSON.parse test.
\* JSON.parse of a value that is not a string parses its string form.
TextOf(a) == IF a.ty = "str" THEN a.s ELSE JSONStringify(a)
ParseFallback(a) == JObj(<< <<"event">>, <<"message">> >>, <<Str("message"), a>>)
\* mutants: JSON.parse outside any try / catch; a string reply never parsed
ParsedResponseNoCatch(a) ==
  IF a.ty \in {"obj", "arr"} THEN a ELSE JSONParse(TextOf(a)).val
ParsedResponseNoParse(a) ==
  IF a.ty \in {"obj", "arr"} THEN a ELSE ParseFallback(a)
ParsedResponse(a) ==
  IF a.ty \in {"obj", "arr"} THEN a
  ELSE LET r == JSONParse(TextOf(a))
       IN IF r.ok THEN r.val ELSE ParseFallback(a)

\* x.length for an array or a string, undefined (compares false) otherwise
LengthPositive(v) ==
  \/ v.ty = "arr" /\ Len(v.items) > 0
  \/ v.ty = "str" /\ Len(v.s) > 0

\* lines 186-195 and 205-214: the body of one api.updateCart call
AddRequest(product) ==
  [selectedPrice |-> Get(product, "id"), productId |-> JUndef, action |-> "add",
   quantity |-> IF Truthy(Get(product, "quantity")) THEN Get(product, "quantity")
                ELSE JNum(1)]
RemoveRequest(product) ==
  [selectedPrice |-> JUndef, productId |-> Get(product, "id"), action |-> "remove",
   quantity |-> IF Truthy(Get(product, "quantity")) THEN Get(product, "quantity")
                ELSE JNum(1)]

\* mutant: an action that is no cart action is taken for `add to cart`
CartRequestsDefaultAdd(p) ==
  LET pl == Get(p, "productList")
  IN IF Truthy(pl) /\ LengthPositive(pl)
       THEN CASE Get(p, "action") = Str("remove from cart") ->
                   [i \in 1..Len(pl.items) |-> RemoveRequest(pl.items[i])]
              [] OTHER -> [i \in 1..Len(pl.items) |-> AddRequest(pl.items[i])]
       ELSE <<>>
\* lines 184-228: the updateCart calls issued, in the order of the product list
CartRequests(p) ==
  LET pl == Get(p, "productList")
  IN IF Truthy(pl) /\ LengthPositive(pl)
       THEN CASE Get(p, "action") = Str("add to cart") ->
                   [i \in 1..Len(pl.items) |-> AddRequest(pl.items[i])]
              [] Get(p, "action") = Str("remove from cart") ->
                   [i \in 1..Len(pl.items) |-> RemoveRequest(pl.items[i])]
              [] OTHER -> <<>>
       ELSE <<>>

\* mutant: the page is pushed without the test of its value
NavigationsAnyPage(p) ==
  IF Get(p, "action") = Str("go to page") THEN <<Get(p, "page")>> ELSE <<>>
\* lines 230-234: the pages pushed on the router
Navigations(p) ==
  IF Get(p, "action") = Str("go to page") /\ Truthy(Get(p, "page"))
    THEN <<Get(p, "page")>>
    ELSE <<>>

\* products.find(p => p.id === item.id): the first match, 0 when there is none
FindProduct(products, item) ==
  LET idx == {i \in 1..Len(products) : JNum(products[i].id) = Get(item, "id")}
  IN IF idx = {} THEN 0 ELSE CHOOSE i \in idx : \A j \in idx : i <= j

\* lines 240-249 and 273-282: one item of the enriched list
EnrichItem(products, item) ==
  IF FindProduct(products, item) # 0
    THEN SetKey(item, "title", products[FindProduct(products, item)].title)
    ELSE item

\* mutant: the items the catalog does not know are filtered out
EnrichedKnownOnly(pl, products) ==
  IF Truthy(pl) /\ Len(products) > 0
    THEN JArr(SelectSeq([i \in 1..Len(pl.items) |-> EnrichItem(products, pl.items[i])],
                        LAMBDA item : FindProduct(products, item) # 0))
    ELSE pl
\* lines 237-250 and 270-283, with the `enriched || productList` of 257 / 289
EnrichedProductList(pl, products) ==
  IF Truthy(pl) /\ Len(products) > 0
    THEN JArr([i \in 1..Len(pl.items) |-> EnrichItem(products, pl.items[i])])
    ELSE pl

\* mutant: the `do` branch keeps the action as the content
ReplyMessagesActionAsContent(p, products) ==
  CASE Get(p, "event") = Str("do") ->
         <<Msg("assistant", Get(p, "action"), Get(p, "event"),
               EnrichedProductList(Get(p, "productList"), products),
               Get(p, "action"), Get(p, "page"))>>
    [] Get(p, "event") = Str("message") ->
         <<PlainMsg("assistant", Get(p, "message"))>>
    [] Get(p, "event") = Str("suggest") ->
         <<Msg("assistant", Get(p, "message"), Get(p, "event"),
               EnrichedProductList(Get(p, "productList"), products),
               JUndef, JUndef)>>
    [] OTHER -> <<>>
\* lines 180-291: the messages appended to the transcript
ReplyMessages(p, products) ==
  CASE Get(p, "event") = Str("do") ->
         <<Msg("assistant", Get(p, "message"), Get(p, "event"),
               EnrichedProductList(Get(p, "productList"), products),
               Get(p, "action"), Get(p, "page"))>>
    [] Get(p, "event") = Str("message") ->
         <<PlainMsg("assistant", Get(p, "message"))>>
    [] Get(p, "event") = Str("suggest") ->
         <<Msg("assistant", Get(p, "message"), Get(p, "event"),
               EnrichedProductList(Get(p, "productList"), products),
               JUndef, JUndef)>>
    [] OTHER -> <<>>

\* the handler throws a TypeError at line 180 when the parsed reply is null
ReplyThrows(a) == ThrowsOnGet(ParsedResponse(a))

\* a line written to the console: console.log or console.error, its label and
\* the value printed after it (undefined for an exception)
Line(level, label, arg) == [level |-> level, label |-> label, arg |-> arg]
\* line 165: JSON.parse threw
ParseLogs(a) ==
  IF a.ty \notin {"obj", "arr"} /\ ~JSONParse(TextOf(a)).ok
    THEN <<Line("error", "Error parsing JSON response:", JUndef)>> ELSE <<>>
\* lines 182, 225 and 232: the lines of the `do` branch, in order
DoLogs(p) ==
  <<Line("log", "Action:", Get(p, "action"))>>
    \o (IF /\ Truthy(Get(p, "productList")) /\ LengthPositive(Get(p, "productList"))
           /\ Get(p, "action") \notin {Str("add to cart"), Str("remove from cart")}
          THEN <<Line("log", "Unknown action:", Get(p, "action"))>> ELSE <<>>)
    \o (IF Get(p, "action") = Str("go to page") /\ Truthy(Get(p, "page"))
          THEN <<Line("log", "Redirection to:", Get(p, "page"))>> ELSE <<>>)
\* line 294: onError
ErrorLogs == <<Line("error", "Error sending message:", JUndef)>>
\* the lines onSuccess writes for reply a, and onError after it when it threw
ReplyLogs(a) ==
  ParseLogs(a)
    \o (IF ReplyThrows(a) THEN ErrorLogs
        ELSE IF Get(ParsedResponse(a), "event") = Str("do")
          THEN DoLogs(ParsedResponse(a)) ELSE <<>>)

\* mutant: the cart calls are issued for a reply of any kind
ReplyCartRequestsAnyKind(a) ==
  IF ~ReplyThrows(a) THEN CartRequests(ParsedResponse(a)) ELSE <<>>
\* what onSuccess does for reply a: the side effects of a `do` event only
ReplyCartRequests(a) ==
  IF ~ReplyThrows(a) /\ Get(ParsedResponse(a), "event") = Str("do")
    THEN CartRequests(ParsedResponse(a)) ELSE <<>>
ReplyNavigations(a) ==
  IF ~ReplyThrows(a) /\ Get(ParsedResponse(a), "event") = Str("do")
    THEN Navigations(ParsedResponse(a)) ELSE <<>>
ReplyAppended(a, products) ==
  IF ReplyThrows(a) THEN <<>> ELSE ReplyMessages(ParsedResponse(a), products)

(***************************************************************************)
(* The environment: what the server may reply, the catalog, the persisted  *)
(* conversations.                                                          *)
(***************************************************************************)
Obj2(k1, v1, k2, v2) == JObj(<< <<k1>>, <<k2>> >>, <<v1, v2>>)
Obj3(k1, v1, k2, v2, k3, v3) == JObj(<< <<k1>>, <<k2>>, <<k3>> >>, <<v1, v2, v3>>)

\* product references as the assistant emits them
Ref7 == JObj(<< <<"id">> >>, <<JNum(7)>>)
Ref3 == Obj2("id", JNum(3), "quantity", JNum(2))
Ref9 == Obj3("id", JNum(9), "quantity", JNum(0), "title", Str("old title"))
Refs == {Ref7, Ref3, Ref9}

RECURSIVE SeqsUpTo(_, _)
SeqsUpTo(S, n) ==
  IF n = 0 THEN {<<>>}
  ELSE LET shorter == SeqsUpTo(S, n - 1)
       IN shorter \cup {Append(q, e) : q \in {r \in shorter : Len(r) = n - 1}, e \in S}

\* an object with the members whose value is not undefined, in the order given
ObjOf(ks, xs) ==
  LET keep == SelectSeq([i \in 1..Len(ks) |-> i], LAMBDA i : xs[i].ty # "undef")
  IN JObj([j \in 1..Len(keep) |-> <<ks[keep[j]]>>], [j \in 1..Len(keep) |-> xs[keep[j]]])

Response(event, message, productList, action, page) ==
  ObjOf(<<"event", "message", "productList", "action", "page">>,
        <<event, message, productList, action, page>>)

EventTags == {JUndef, Str("message"), Str("suggest"), Str("do"), Str("other")}
Actions == {JUndef, Str("add to cart"), Str("remove from cart"), Str("go to page"),
            Str("dance")}
Pages == {JUndef, Str("/cart"), JStr(<<>>)}
ProductLists == {JUndef} \cup {JArr(l) : l \in SeqsUpTo(Refs, MaxRefs)}

\* every structured reply of the bounded domain
StructuredReplies ==
  {Response(e, Str("Bonjour"), pl, a, pg) :
     e \in EventTags, pl \in ProductLists, a \in Actions, pg \in Pages}

\* strings that are no JSON text, JSON text of a value that is no object
MalformedStrings ==
  {JStr(<<"not json">>), JStr(<<>>), JStr(<<"{", Q, "event", Q, ":">>),
   JStr(<<"{", Q, "event", Q, ":", Q, "do", Q, "}", "}">>)}
ScalarStrings == {JStr(<<"null">>), JStr(<<Q, "Bonjour", Q>>), JStr(<<"7">>)}

\* a reply as it arrives, with the structured reply the server encoded in it
\* (undefined when it encoded none): the object itself, the string that
\* encodes it, or a string that encodes no object
Arrives(reply, encoded) == [reply |-> reply, encoded |-> encoded]
AsObject(S) == {Arrives(r, r) : r \in S}
AsString(S) == {Arrives(JStr(JSONStringify(r)), r) : r \in S}
Unstructured(S) == {Arrives(m, JUndef) : m \in S}
AllReplies ==
  AsObject(StructuredReplies) \cup AsString(StructuredReplies)
    \cup Unstructured(MalformedStrings \cup ScalarStrings)

\* the replies of the dispatcher specification: one of each kind
DoAdd == Response(Str("do"), Str("Ajoute"), JArr(<<Ref3, Ref7>>), Str("add to cart"), JUndef)
DoRemove == Response(Str("do"), Str("Retire"), JArr(<<Ref3, Ref9>>),
                     Str("remove from cart"), JUndef)
DoGoto == Response(Str("do"), Str("Allons-y"), JUndef, Str("go to page"), Str("/cart"))
Suggest7 == Response(Str("suggest"), Str("Voici"), JArr(<<Ref7>>), JUndef, JUndef)
Bonjour == Response(Str("message"), Str("Bonjour"), JUndef, JUndef, JUndef)
NoTag == Response(JUndef, Str("Bonjour"), JUndef, JUndef, JUndef)
DoAdd3 == Response(Str("do"), Str("Ajoute"), JArr(<<Ref3>>), Str("add to cart"), JUndef)
SomeReplies ==
  AsString({Bonjour}) \cup AsObject({DoAdd3, NoTag}) \cup Unstructured({JStr(<<"null">>)})

Statuses == {"active", "needs_human", "archived"}
ServerIds == {5}
ServerTitles == {<<"T">>}

\* the conversation of the reply envelope: the server keeps the id it was sent
\* and assigns one to a new conversation
Envelopes(reqId) ==
  {[id |-> i, title |-> t, status |-> st] :
     i \in (IF reqId = Null THEN ServerIds ELSE {reqId}), t \in ServerTitles,
     st \in Statuses}

\* the data of the products query
CatalogProduct(id, title) == [id |-> id, title |-> title]
Catalogs ==
  {<<>>,
   <<CatalogProduct(7, Str("Firewall Pro"))>>,
   <<CatalogProduct(3, Str("VPN")), CatalogProduct(9, Str("Antivirus")),
     CatalogProduct(3, Str("VPN bis"))>>}

\* the data of the conversations query
Turn(role, text) == [role |-> role, content |-> <<[text |-> text]>>]
EmptyTurn(role) == [role |-> role, content |-> <<>>]
ConvA ==
  [id |-> 1, title |-> <<"A">>, status |-> "active",
   messages |-> <<Turn("user", Str("hi")),
                  Turn("assistant", JStr(JSONStringify(Suggest7))),
                  Turn("assistant", JStr(<<"not json">>))>>]
ConvB ==
  [id |-> 2, title |-> <<"B">>, status |-> "archived",
   messages |-> <<Turn("user", Str("hi")), Turn("assistant", JStr(<<"not json">>)),
                  Turn("user", Str("add")),
                  Turn("assistant", JStr(JSONStringify(DoAdd)))>>]
ConvC ==
  [id |-> 3, title |-> <<"C">>, status |-> "needs_human",
   messages |-> <<Turn("user", Str("hi")), EmptyTurn("assistant")>>]
Conversations == {ConvA, ConvB, ConvC}
\* a conversation whose assistant turns are `do` events
ConvD ==
  [id |-> 4, title |-> <<"D">>, status |-> "active",
   messages |-> <<Turn("user", Str("remove")),
                  Turn("assistant", JStr(JSONStringify(DoRemove))),
                  Turn("user", Str("cart")),
                  Turn("assistant", JStr(JSONStringify(DoGoto)))>>]
SavedConversations == Conversations \cup {ConvD}
\* the conversations opened in the dispatcher specification
SomeConversations == {ConvA, ConvC}

\* what the user types
Texts == {<<"salut">>, <<" ">>, <<" ", "salut", " ">>}
SomeTexts == {<<"salut">>}

(***************************************************************************)
(* The state of ChatScreen.                                                *)
(***************************************************************************)
VARIABLES
  messages,               \* useState: the transcript
  inputText,              \* useState: the text of the input field
  conversationId,         \* useState: Null or the id
  conversationTitle,      \* useState
  conversationStatus,     \* useState
  showConversationsList,  \* useState
  products,               \* the data of the products query
  mutStatus,              \* messageMutation.status
  wire,                   \* api.sendMessage calls that have not settled, each
                          \* with the id, title and status it was issued under
  remoteCalls,            \* every api.sendMessage call issued, in order
  cartCalls,              \* every api.updateCart call issued, with its state
  fanouts,                \* the state of each Promise.all of a cart fan-out
  cartInvalidations,      \* invalidateQueries({ queryKey: ["cart"] }) calls
  navigations,            \* router.push calls, in order
  lastEvent,              \* how the last settled send settled, the reply, and
                          \* the console lines its handler wrote
  cartLogs,               \* the console lines of the `then` and `catch` of each
                          \* cart fan-out
  \* Login (src/app/auth/login.jsx), the OTP modal
  mounted,                \* the component is mounted
  otpModalVisible,        \* useState
  remainingTime,          \* useState: the seconds before a resend is allowed
  loading,                \* useState
  intervalRef,            \* useRef: the id setInterval returned last, 0 for null
  activeIntervals,        \* the ids of the intervals that are not cleared
  otpRequest,             \* the axios request a handler awaits: none, send,
                          \* resend or login
  sendOTPCalls,           \* number of posts to /api/user/sendOTP
  \* the product listing (src/unnamed/part_002)
  storedProducts,         \* AsyncStorage: the cached products, NoData for none
  storedTimestamp,        \* AsyncStorage: the time of the last save, -1 for none
  now,                    \* Date.now()
  isConnected,            \* useState
  isOfflineMode,          \* useState
  listProducts,           \* useState: the products displayed
  listError,              \* useState: an error message is displayed
  fetchState,             \* where fetchProducts stands: idle, network, done
  networkFetches          \* number of fetch calls to /api/products

otpVars ==
  <<mounted, otpModalVisible, remainingTime, loading, intervalRef, activeIntervals,
    otpRequest, sendOTPCalls>>
listVars ==
  <<storedProducts, storedTimestamp, now, isConnected, isOfflineMode, listProducts,
    listError, fetchState, networkFetches>>
\* the state of the screens other than the chat
otherVars == <<otpVars, listVars>>
chatVars ==
  <<messages, inputText, conversationId, conversationTitle, conversationStatus,
    showConversationsList, products, mutStatus, wire, remoteCalls, cartCalls,
    fanouts, cartInvalidations, navigations, lastEvent, cartLogs>>
vars == <<chatVars, otpVars, listVars>>

convVars == <<conversationId, conversationTitle, conversationStatus>>
cartVars == <<cartCalls, fanouts, cartInvalidations, cartLogs>>

NoEvent == [kind |-> "none", reply |-> JUndef, encoded |-> JUndef, logs |-> <<>>]
ConvNow == [id |-> conversationId, title |-> conversationTitle,
            status |-> conversationStatus]

\* src/app/auth/login.jsx lines 36-40: the first render of Login
LoginInit ==
  /\ mounted = TRUE
  /\ otpModalVisible = FALSE
  /\ remainingTime = 0
  /\ loading = FALSE
  /\ intervalRef = 0
  /\ activeIntervals = {}
  /\ otpRequest = "none"
  /\ sendOTPCalls = 0

\* src/unnamed/part_002 lines 294-298: the first render of Products, with
\* nothing in the storage
NoData == "none"
ProductsInit ==
  /\ storedProducts = NoData
  /\ storedTimestamp = <<>>
  /\ now = 0
  /\ isConnected = TRUE
  /\ isOfflineMode = FALSE
  /\ listProducts = NoData
  /\ listError = FALSE
  /\ fetchState = "unmounted"
  /\ networkFetches = 0

\* lines 99-104, 133, 149: the state of the first render
Init ==
  /\ messages = <<>>
  /\ inputText = <<>>
  /\ conversationId = Null
  /\ conversationTitle = <<>>
  /\ conversationStatus = "active"
  /\ showConversationsList = FALSE
  /\ products = <<>>
  /\ mutStatus = "idle"
  /\ wire = <<>>
  /\ remoteCalls = <<>>
  /\ cartCalls = <<>>
  /\ fanouts = <<>>
  /\ cartInvalidations = 0
  /\ navigations = <<>>
  /\ lastEvent = NoEvent
  /\ cartLogs = <<>>
  /\ LoginInit
  /\ ProductsInit

\* lines 315-324: the effect that seeds the greeting; it runs after the render,
\* before any handler
WelcomePending == Len(messages) = 0 /\ conversationId = Null
WelcomeEffect ==
  /\ WelcomePending
  /\ messages' = <<PlainMsg("assistant", Greeting)>>
  /\ UNCHANGED <<inputText, convVars, showConversationsList, products, mutStatus,
                 wire, remoteCalls, cartVars, navigations, lastEvent>>
  /\ UNCHANGED otherVars

\* line 630: onChangeText
SetInputText(t) ==
  /\ inputText' = t
  /\ UNCHANGED <<messages, convVars, showConversationsList, products, mutStatus,
                 wire, remoteCalls, cartVars, navigations, lastEvent>>
  /\ UNCHANGED otherVars

\* line 568: the header opens the list of conversations
ShowList ==
  /\ showConversationsList' = TRUE
  /\ UNCHANGED <<messages, inputText, convVars, products, mutStatus, wire,
                 remoteCalls, cartVars, navigations, lastEvent>>
  /\ UNCHANGED otherVars

\* lines 133-138: the products query delivers the catalog
ProductsFetched(c) ==
  /\ products' = c
  /\ UNCHANGED <<messages, inputText, convVars, showConversationsList, mutStatus,
                 wire, remoteCalls, cartVars, navigations, lastEvent>>
  /\ UNCHANGED otherVars

\* line 389: the early return of sendMessage
IsPending == mutStatus = "pending"
\* mutant: the early return without the isPending test
SendRejectedBlankOnly == ~Truthy(JStr(Trim(inputText)))
SendRejected == ~Truthy(JStr(Trim(inputText))) \/ IsPending

\* mutant: the remote call never carries a conversation id
SendMessageWithoutId ==
  IF SendRejected THEN UNCHANGED vars
  ELSE
    /\ messages' = Append(messages, PlainMsg("user", JStr(inputText)))
    /\ inputText' = <<>>
    /\ wire' = Append(wire, [id |-> Null, text |-> inputText, conv |-> ConvNow])
    /\ remoteCalls' = Append(remoteCalls, [id |-> Null, text |-> inputText])
    /\ mutStatus' = "pending"
    /\ UNCHANGED <<convVars, showConversationsList, products, cartVars, navigations,
                   lastEvent>>
    /\ UNCHANGED otherVars
\* lines 388-406
SendMessage ==
  IF SendRejected THEN UNCHANGED vars
  ELSE
    /\ messages' = Append(messages, PlainMsg("user", JStr(inputText)))
    /\ inputText' = <<>>
    /\ wire' = Append(wire, [id |-> conversationId, text |-> inputText,
                              conv |-> ConvNow])
    /\ remoteCalls' = Append(remoteCalls, [id |-> conversationId, text |-> inputText])
    /\ mutStatus' = "pending"
    /\ UNCHANGED <<convVars, showConversationsList, products, cartVars, navigations,
                   lastEvent>>
    /\ UNCHANGED otherVars

\* mutant: the status of the mutation is never updated
SettledNever(i, status) == mutStatus
\* the mutation observer follows the call issued last
Drop(q, i) == SubSeq(q, 1, i - 1) \o SubSeq(q, i + 1, Len(q))
Settled(i, status) == IF i = Len(wire) THEN status ELSE mutStatus

\* mutant: onError replaces the transcript by the apology
ReplaceByApology == messages' = <<PlainMsg("assistant", Apology)>>
\* lines 293-302: onError
AppendApology == messages' = Append(messages, PlainMsg("assistant", Apology))

\* mutant: onError also drops the conversation, as startNewConversation does
OnErrorResets(i) ==
  /\ i \in 1..Len(wire)
  /\ AppendApology
  /\ wire' = Drop(wire, i)
  /\ mutStatus' = Settled(i, "error")
  /\ lastEvent' = [kind |-> "failure", reply |-> JUndef, encoded |-> JUndef,
                    logs |-> ErrorLogs]
  /\ conversationId' = Null
  /\ conversationTitle' = <<>>
  /\ conversationStatus' = "active"
  /\ UNCHANGED <<inputText, showConversationsList, products, remoteCalls,
                 cartVars, navigations>>
  /\ UNCHANGED otherVars
\* the remote call fails: onError runs
OnError(i) ==
  /\ i \in 1..Len(wire)
  /\ AppendApology
  /\ wire' = Drop(wire, i)
  /\ mutStatus' = Settled(i, "error")
  /\ lastEvent' = [kind |-> "failure", reply |-> JUndef, encoded |-> JUndef,
                    logs |-> ErrorLogs]
  /\ UNCHANGED <<inputText, convVars, showConversationsList, products, remoteCalls,
                 cartVars, navigations>>
  /\ UNCHANGED otherVars

\* lines 197 and 216, 201 and 220: the line the `then` or the `catch` of a
\* fan-out writes; the action of one of its calls tells which fan-out it is
ThenLine(req) ==
  Line("log", IF req.action = "add" THEN "Products added to cart:"
              ELSE "Products removed from cart:", JUndef)
CatchLine(req) ==
  Line("error", IF req.action = "add" THEN "Error adding products to cart:"
                ELSE "Error removing products from cart:", JUndef)

\* the api.updateCart calls of one fan-out, all pending
NewCalls(reqs) ==
  [k \in 1..Len(reqs) |-> [req |-> reqs[k], fan |-> Len(fanouts) + 1,
                           status |-> "pending"]]

\* lines 151-292: onSuccess for the reply w.reply and the envelope's
\* conversation conv; when the handler throws, the mutation runs onError
OnSuccess(i, w, conv) ==
  LET a == w.reply IN
  /\ i \in 1..Len(wire)
  /\ conversationId' = conv.id
  /\ conversationTitle' = conv.title
  /\ conversationStatus' = conv.status
  /\ wire' = Drop(wire, i)
  /\ lastEvent' = [kind |-> "reply", reply |-> a, encoded |-> w.encoded,
                    logs |-> ReplyLogs(a)]
  /\ IF ReplyThrows(a)
       THEN /\ AppendApology
            /\ mutStatus' = Settled(i, "error")
            /\ UNCHANGED <<cartVars, navigations>>
       ELSE /\ messages' = messages \o ReplyAppended(a, products)
            /\ mutStatus' = Settled(i, "success")
            /\ cartCalls' = cartCalls \o NewCalls(ReplyCartRequests(a))
            /\ fanouts' = IF ReplyCartRequests(a) = <<>> THEN fanouts
                          ELSE Append(fanouts, "pending")
            /\ cartLogs' = IF ReplyCartRequests(a) = <<>> THEN cartLogs
                           ELSE Append(cartLogs, <<>>)
            /\ navigations' = navigations \o ReplyNavigations(a)
            /\ UNCHANGED cartInvalidations
  /\ UNCHANGED <<inputText, showConversationsList, products, remoteCalls>>
  /\ UNCHANGED otherVars

\* lines 187-199 and 206-218: an api.updateCart call succeeds; when it is the
\* last of its fan-out and none failed, Promise.all fulfils and `then` runs
CartCallSucceeds(k) ==
  /\ k \in 1..Len(cartCalls)
  /\ cartCalls[k].status = "pending"
  /\ cartCalls' = [cartCalls EXCEPT ![k].status = "ok"]
  /\ LET f == cartCalls[k].fan
         allOk == \A j \in 1..Len(cartCalls) :
                    cartCalls[j].fan = f => cartCalls'[j].status = "ok"
     IN IF allOk /\ fanouts[f] = "pending"
          THEN /\ fanouts' = [fanouts EXCEPT ![f] = "fulfilled"]
               /\ cartLogs' = [cartLogs EXCEPT ![f] = Append(@, ThenLine(cartCalls[k].req))]
               /\ cartInvalidations' = cartInvalidations + 1
          ELSE UNCHANGED <<fanouts, cartInvalidations, cartLogs>>
  /\ UNCHANGED <<messages, inputText, convVars, showConversationsList, products,
                 mutStatus, wire, remoteCalls, navigations, lastEvent>>
  /\ UNCHANGED otherVars

\* mutant: a failure aborts the calls of its fan-out that are still pending
CartCallFailsFast(k) ==
  /\ k \in 1..Len(cartCalls)
  /\ cartCalls[k].status = "pending"
  /\ cartCalls' = [j \in 1..Len(cartCalls) |->
                     IF cartCalls[j].fan = cartCalls[k].fan
                        /\ cartCalls[j].status = "pending"
                       THEN [cartCalls[j] EXCEPT !.status = "failed"]
                       ELSE cartCalls[j]]
  /\ fanouts' = [fanouts EXCEPT ![cartCalls[k].fan] =
                   IF @ = "pending" THEN "rejected" ELSE @]
  /\ cartLogs' = [cartLogs EXCEPT ![cartCalls[k].fan] =
                    IF fanouts[cartCalls[k].fan] = "pending"
                      THEN Append(@, CatchLine(cartCalls[k].req)) ELSE @]
  /\ UNCHANGED <<messages, inputText, convVars, showConversationsList, products,
                 mutStatus, wire, remoteCalls, cartInvalidations, navigations,
                 lastEvent>>
  /\ UNCHANGED otherVars
\* lines 200-202 and 219-221: an api.updateCart call fails; the first failure
\* of a fan-out rejects its Promise.all and `catch` runs
CartCallFails(k) ==
  /\ k \in 1..Len(cartCalls)
  /\ cartCalls[k].status = "pending"
  /\ cartCalls' = [cartCalls EXCEPT ![k].status = "failed"]
  /\ fanouts' = [fanouts EXCEPT ![cartCalls[k].fan] =
                   IF @ = "pending" THEN "rejected" ELSE @]
  /\ cartLogs' = [cartLogs EXCEPT ![cartCalls[k].fan] =
                    IF fanouts[cartCalls[k].fan] = "pending"
                      THEN Append(@, CatchLine(cartCalls[k].req)) ELSE @]
  /\ UNCHANGED <<messages, inputText, convVars, showConversationsList, products,
                 mutStatus, wire, remoteCalls, cartInvalidations, navigations,
                 lastEvent>>
  /\ UNCHANGED otherVars

\* mutant: startNewConversation without the reset of the status
StartNewKeepsStatus ==
  /\ conversationId' = Null
  /\ conversationTitle' = <<>>
  /\ messages' = <<PlainMsg("assistant", Greeting)>>
  /\ showConversationsList' = FALSE
  /\ UNCHANGED <<conversationStatus, inputText, products, mutStatus, wire, remoteCalls,
                 cartVars, navigations, lastEvent>>
  /\ UNCHANGED otherVars
\* lines 327-338
StartNewConversation ==
  /\ conversationId' = Null
  /\ conversationTitle' = <<>>
  /\ conversationStatus' = "active"
  /\ messages' = <<PlainMsg("assistant", Greeting)>>
  /\ showConversationsList' = FALSE
  /\ UNCHANGED <<inputText, products, mutStatus, wire, remoteCalls, cartVars,
                 navigations, lastEvent>>
  /\ UNCHANGED otherVars

\* lines 349-370: an assistant turn; msg.content[0].text is read first
FormatAssistant(text) ==
  LET r == IF text.ty = "str" THEN JSONParse(text.s) ELSE POk(text, <<>>)
  IN IF r.ok /\ ~ThrowsOnGet(r.val)
       THEN Msg("assistant", Get(r.val, "message"), Get(r.val, "event"),
                Get(r.val, "productList"), Get(r.val, "action"), Get(r.val, "page"))
       ELSE PlainMsg("assistant", text)

\* lines 348-378: one turn of the conversation
FormatTurn(msg) ==
  IF msg.role = "assistant" THEN FormatAssistant(msg.content[1].text)
  ELSE PlainMsg("user", msg.content[1].text)

\* msg.content[0].text throws when the turn has no content entry: in the
\* inner catch for an assistant turn (line 368), at line 375 for a user turn
FormatThrows(conversation) ==
  \E j \in 1..Len(conversation.messages) : Len(conversation.messages[j].content) = 0

\* mutant: the load carries out the `do` event of the last turn again
LoadConversationReplays(conversation) ==
  LET last == conversation.messages[Len(conversation.messages)]
      text == IF Len(last.content) > 0 /\ last.role = "assistant"
                THEN last.content[1].text ELSE Str("")
  IN /\ conversationId' = conversation.id
     /\ conversationTitle' = conversation.title
     /\ conversationStatus' = conversation.status
     /\ IF FormatThrows(conversation)
          THEN UNCHANGED <<messages, showConversationsList>>
          ELSE /\ messages' = [j \in 1..Len(conversation.messages) |->
                                 FormatTurn(conversation.messages[j])]
               /\ showConversationsList' = FALSE
     /\ cartCalls' = cartCalls \o NewCalls(ReplyCartRequests(text))
     /\ navigations' = navigations \o ReplyNavigations(text)
     /\ UNCHANGED <<inputText, products, mutStatus, wire, remoteCalls, fanouts,
                    cartInvalidations, cartLogs, lastEvent>>
     /\ UNCHANGED otherVars
\* lines 341-385
LoadConversation(conversation) ==
  /\ conversationId' = conversation.id
  /\ conversationTitle' = conversation.title
  /\ conversationStatus' = conversation.status
  /\ IF FormatThrows(conversation)
       THEN UNCHANGED <<messages, showConversationsList>>
       ELSE /\ messages' = [j \in 1..Len(conversation.messages) |->
                              FormatTurn(conversation.messages[j])]
            /\ showConversationsList' = FALSE
  /\ UNCHANGED <<inputText, products, mutStatus, wire, remoteCalls, cartVars,
                 navigations, lastEvent>>
  /\ UNCHANGED otherVars

(***************************************************************************)
(* The dispatcher specification: the handlers in any order, the replies of *)
(* SomeReplies, at most MaxSends accepted sends.                           *)
(***************************************************************************)
Next ==
  \/ WelcomeEffect
  \/ ~WelcomePending /\ \E t \in SomeTexts : SetInputText(t)
  \/ ~WelcomePending /\ Len(remoteCalls) < MaxSends /\ SendMessage
  \/ \E i \in 1..Len(wire) : OnError(i)
  \/ \E i \in 1..Len(wire) : \E w \in SomeReplies : \E conv \in Envelopes(wire[i].id) :
       OnSuccess(i, w, conv)
  \/ \E k \in 1..Len(cartCalls) : CartCallSucceeds(k)
  \/ \E k \in 1..Len(cartCalls) : CartCallFails(k)
  \/ ~WelcomePending /\ StartNewConversation
  \/ ~WelcomePending /\ \E c \in SomeConversations : LoadConversation(c)

Spec == Init /\ [][Next]_vars

(***************************************************************************)
(* Steps of the send mutation, as seen from outside.                       *)
(***************************************************************************)
\* the remote call of the one send in flight fails, and onError has run
RemoteFailure == Len(wire) = 1 /\ wire' = <<>> /\ lastEvent'.kind = "failure"
\* the remote call of the one send in flight has replied, and onSuccess has run
RemoteReply == Len(wire) = 1 /\ wire' = <<>> /\ lastEvent'.kind = "reply"
\* this step appends exactly message m to the transcript
Appends(m) == messages' = Append(messages, m)
IsLast(m) == Len(messages) > 0 /\ messages[Len(messages)] = m

\* C1 as stated: when the remote call of send fails, one assistant message with
\* the fixed apology is appended, the conversation id, title and status are
\* after the failure handling what they were when the send was issued, and no
\* cart call and no navigation is issued.
C1_AsWhenIssued ==
  [][RemoteFailure =>
       /\ Appends(PlainMsg("assistant", Apology))
       /\ ConvNow' = wire[1].conv
       /\ UNCHANGED <<cartCalls, navigations>>]_vars

\* C1, amended: when the remote call of send fails, the failure handling
\* appends exactly one assistant message with the fixed apology, leaves the
\* conversation id, title and status as they were just before it, and issues
\* no cart call and no navigation.
C1_FailureHandling ==
  [][RemoteFailure =>
       /\ Appends(PlainMsg("assistant", Apology))
       /\ UNCHANGED convVars
       /\ UNCHANGED <<cartCalls, fanouts, cartInvalidations, navigations>>]_vars

\* a send issued in a conversation that has an id has failed
C1_Witness ==
  /\ lastEvent.kind = "failure"
  /\ mutStatus = "error"
  /\ conversationId # Null
  /\ IsLast(PlainMsg("assistant", Apology))

\* C3: at most one send is in flight; while a send is pending no step issues
\* a remote call or appends a user message, and a remote call is only ever
\* issued by a send accepted in that very step, for the text and the id of
\* that moment (none is queued).
C3_OneInFlight ==
  /\ [](Len(wire) <= 1 /\ (IsPending <=> Len(wire) = 1))
  /\ [][/\ IsPending =>
             /\ remoteCalls' = remoteCalls
             /\ \A m \in {PlainMsg("user", JStr(t)) : t \in Texts} : ~Appends(m)
        /\ remoteCalls' # remoteCalls =>
             /\ ~IsPending
             /\ remoteCalls' =
                  Append(remoteCalls, [id |-> conversationId, text |-> inputText])
             /\ Len(wire') = 1 /\ wire'[1].text = inputText
             /\ Appends(PlainMsg("user", JStr(inputText)))]_vars

\* a send is pending and the input holds a text that is not blank
C3_Witness == IsPending /\ Len(wire) = 1 /\ Truthy(JStr(Trim(inputText)))

\* C4: when the assistant message of a send (reply or apology) is appended,
\* the user message of that send is in the transcript at an earlier position,
\* whatever ran while the send was pending.
C4_UserPrecedes ==
  [][(RemoteFailure \/ RemoteReply) /\ Len(messages') = Len(messages) + 1 =>
       \E j \in 1..Len(messages) :
         messages'[j] = PlainMsg("user", JStr(wire[1].text))]_vars

(***************************************************************************)
(* The reply specification: one send, any catalog, every reply of          *)
(* AllReplies, then the fan-out of its cart calls.                         *)
(***************************************************************************)
ReplyInit ==
  /\ messages = <<>>
  /\ inputText = <<>>
  /\ conversationId = Null
  /\ conversationTitle = <<>>
  /\ conversationStatus = "active"
  /\ showConversationsList = FALSE
  /\ products \in Catalogs
  /\ mutStatus = "idle"
  /\ wire = <<>>
  /\ remoteCalls = <<>>
  /\ cartCalls = <<>>
  /\ fanouts = <<>>
  /\ cartInvalidations = 0
  /\ navigations = <<>>
  /\ lastEvent = NoEvent
  /\ cartLogs = <<>>
  /\ LoginInit
  /\ ProductsInit

ReplyEnvelope == [id |-> 5, title |-> <<"T">>, status |-> "needs_human"]

ReplyNext ==
  \/ WelcomeEffect
  \/ ~WelcomePending /\ remoteCalls = <<>> /\ \E t \in Texts : SetInputText(t)
  \/ ~WelcomePending /\ remoteCalls = <<>> /\ SendMessage
  \/ \E i \in 1..Len(wire) : OnError(i)
  \/ \E i \in 1..Len(wire) : \E w \in AllReplies : OnSuccess(i, w, ReplyEnvelope)
  \/ \E k \in 1..Len(cartCalls) : CartCallSucceeds(k)
  \/ \E k \in 1..Len(cartCalls) : CartCallFails(k)

ReplySpec == ReplyInit /\ [][ReplyNext]_vars
(***************************************************************************)
(* Claims about the handling of one reply (ReplySpec).                     *)
(***************************************************************************)
\* the reply handled by this step, and the structured reply it encodes
Reply == lastEvent.reply
Encoded == lastEvent.encoded
RecognizedTags == {Str("message"), Str("suggest"), Str("do")}
\* the message this step appends as the last one of the transcript
Appended == messages'[Len(messages')]
\* this step appends exactly one message, an assistant's
AppendsOneAssistant ==
  /\ Len(messages') = Len(messages) + 1
  /\ SubSeq(messages', 1, Len(messages)) = messages
  /\ Appended.role = "assistant"
\* the requests of the api.updateCart calls issued so far
Requests(calls) == [k \in 1..Len(calls) |-> calls[k].req]

\* C2: every successful reply, whatever its event tag, makes the reply
\* handling append exactly one assistant message.
C2_OneAssistantMessage == [][RemoteReply => AppendsOneAssistant]_vars

\* C5: a reply that is a string and no valid JSON is handled without raising
\* (onError does not run, no apology): one plain assistant message is
\* appended, whose content is the original string.
C5_MalformedIsMessage ==
  [][RemoteReply /\ Reply' \in MalformedStrings =>
       /\ Appends(PlainMsg("assistant", Reply'))
       /\ Get(ParsedResponse(Reply'), "event") = Str("message")
       /\ mutStatus' = "success"
       /\ UNCHANGED <<cartCalls, navigations>>]_vars

\* the reply "not json" has been handled
C5_Witness ==
  /\ lastEvent.kind = "reply"
  /\ Reply = JStr(<<"not json">>)
  /\ IsLast(PlainMsg("assistant", JStr(<<"not json">>)))

\* C6: a reply (object, or string that decodes to one) whose event tag is
\* absent or not recognized is handled as a message: an assistant message with
\* the reply's text is appended, and it is no error.
C6_UntaggedIsMessage ==
  [][RemoteReply /\ Encoded'.ty = "obj" /\ Get(Encoded', "event") \notin RecognizedTags =>
       /\ AppendsOneAssistant
       /\ Appended.content = Get(Encoded', "message")
       /\ mutStatus' = "success"]_vars

\* C7: the string that is the JSON encoding of a structured reply is handled
\* as the structured reply itself is: same normalized event, same cart calls
\* and navigation, same appended message.
C7_StringAsObject ==
  [][RemoteReply /\ Reply'.ty = "str" /\ Encoded'.ty = "obj" =>
       /\ \A k \in {"event", "message", "productList", "action", "page"} :
            Get(ParsedResponse(Reply'), k) = Get(Encoded', k)
       /\ messages' = messages \o ReplyAppended(Encoded', products)
       /\ Requests(cartCalls') = Requests(cartCalls) \o ReplyCartRequests(Encoded')
       /\ navigations' = navigations \o ReplyNavigations(Encoded')
       /\ mutStatus' = "success"]_vars

\* a `do` reply that arrived as a string has issued its two cart calls
C7_Witness ==
  /\ lastEvent.kind = "reply"
  /\ Reply.ty = "str"
  /\ Encoded.ty = "obj"
  /\ Get(Encoded, "event") = Str("do")
  /\ Len(cartCalls) = 2
  /\ Len(messages) = 3
  /\ messages[3].event = Str("do")

InCatalog(item) == \E i \in 1..Len(products) : JNum(products[i].id) = Get(item, "id")
\* item `out` is item `in` with its title set to a catalog title of its id
TitledFromCatalog(in, out) ==
  /\ \E i \in 1..Len(products) :
       JNum(products[i].id) = Get(in, "id") /\ Get(out, "title") = products[i].title
  /\ \A k \in {"id", "quantity"} : Get(out, k) = Get(in, k)

\* C9: the product list of the message appended for a suggest or do reply has
\* the length and the order of ids of the reply's list; an entry whose id is
\* in the catalog has a catalog title of that id, any other entry is unchanged.
C9_Enrichment ==
  [][RemoteReply /\ Encoded'.ty = "obj"
       /\ Get(Encoded', "event") \in {Str("suggest"), Str("do")}
       /\ Get(Encoded', "productList").ty = "arr" =>
       LET in == Get(Encoded', "productList").items
           out == Appended.productList
       IN /\ AppendsOneAssistant
          /\ out.ty = "arr"
          /\ Len(out.items) = Len(in)
          /\ \A i \in 1..Len(in) :
               /\ Get(out.items[i], "id") = Get(in[i], "id")
               /\ IF InCatalog(in[i]) THEN TitledFromCatalog(in[i], out.items[i])
                  ELSE out.items[i] = in[i]]_vars

\* a list with an entry the catalog knows and an entry it does not
C9_Witness ==
  /\ lastEvent.kind = "reply"
  /\ Get(Encoded, "event") = Str("suggest")
  /\ Get(Encoded, "productList") = JArr(<<Ref7, Ref9>>)
  /\ Len(products) = 1
  /\ Len(messages) = 3
  /\ messages[3].productList = JArr(<<SetKey(Ref7, "title", Str("Firewall Pro")), Ref9>>)

\* the product references of a cart fan-out: those of a `do` reply whose
\* action is a cart action, none otherwise
FanoutRefs(p) ==
  IF /\ p.ty = "obj"
     /\ Get(p, "event") = Str("do")
     /\ Get(p, "action") \in {Str("add to cart"), Str("remove from cart")}
     /\ Get(p, "productList").ty = "arr"
    THEN Get(p, "productList").items
    ELSE <<>>
IdOf(req) == IF req.action = "add" THEN req.selectedPrice ELSE req.productId

\* C10: a do reply with a cart action and N product refs issues exactly N cart
\* calls, one per ref; each call stays pending until it succeeds or fails
\* itself, whatever the others do, and a settled call stays as it settled.
C10_FanOut ==
  /\ [](lastEvent.kind = "reply" /\ FanoutRefs(Encoded) # <<>> =>
          /\ Len(cartCalls) = Len(FanoutRefs(Encoded))
          /\ \A k \in 1..Len(cartCalls) :
               /\ IdOf(cartCalls[k].req) = Get(FanoutRefs(Encoded)[k], "id")
               /\ cartCalls[k].status = "pending" =>
                    ENABLED CartCallSucceeds(k) /\ ENABLED CartCallFails(k))
  /\ [][\A k \in 1..Len(cartCalls) :
          cartCalls'[k].status # cartCalls[k].status =>
            /\ cartCalls[k].status = "pending"
            /\ \A j \in 1..Len(cartCalls) :
                 j # k => cartCalls'[j].status = cartCalls[j].status]_vars

\* two calls of one fan-out: the first failed, the second succeeded after it
C10_Witness ==
  /\ Len(cartCalls) = 2
  /\ cartCalls[1].status = "failed"
  /\ cartCalls[2].status = "ok"
  /\ fanouts = <<"rejected">>

(***************************************************************************)
(* The fan-out specification: one send, a reply that issues cart calls (or *)
(* none), and fairness: every api.updateCart call that is pending settles  *)
(* (axios resolves or rejects each request).                               *)
(***************************************************************************)
FanOutReplies == AsObject({DoAdd, DoRemove, DoAdd3, Bonjour}) \cup AsString({DoRemove})
CartSettles == \E k \in 1..Len(cartCalls) : CartCallSucceeds(k) \/ CartCallFails(k)
FanOutNext ==
  \/ WelcomeEffect
  \/ ~WelcomePending /\ remoteCalls = <<>> /\ \E t \in Texts : SetInputText(t)
  \/ ~WelcomePending /\ remoteCalls = <<>> /\ SendMessage
  \/ \E i \in 1..Len(wire) : OnError(i)
  \/ \E i \in 1..Len(wire) : \E w \in FanOutReplies : OnSuccess(i, w, ReplyEnvelope)
  \/ \E k \in 1..Len(cartCalls) : CartCallSucceeds(k)
  \/ \E k \in 1..Len(cartCalls) : CartCallFails(k)
FanOutSpec == ReplyInit /\ [][FanOutNext]_vars /\ WF_vars(CartSettles)

\* C11: once a cart fan-out has been issued, the cart query is eventually
\* invalidated, whether every call of the fan-out succeeds or some call fails.
C11_RefreshAfterFanOut == (fanouts # <<>>) ~> (cartInvalidations > 0)

\* the quantity a cart call is to carry for a product reference: the
\* reference's own when it has one, 1 otherwise
QuantityOf(ref) ==
  IF Get(ref, "quantity") # JUndef THEN Get(ref, "quantity") ELSE JNum(1)
CartActionOf(p) == IF Get(p, "action") = Str("add to cart") THEN "add" ELSE "remove"

\* C12: each cart call of a fan-out carries the id of its product reference,
\* the action (add or remove) of the reply, and the reference's quantity, 1
\* when the reference has none.
C12_CallCarriesRef ==
  lastEvent.kind = "reply" /\ FanoutRefs(Encoded) # <<>> =>
    /\ Len(cartCalls) = Len(FanoutRefs(Encoded))
    /\ \A k \in 1..Len(cartCalls) :
         /\ IdOf(cartCalls[k].req) = Get(FanoutRefs(Encoded)[k], "id")
         /\ cartCalls[k].req.action = CartActionOf(Encoded)
         /\ cartCalls[k].req.quantity = QuantityOf(FanoutRefs(Encoded)[k])

\* C13: a reply of kind message or suggest issues no cart call and no
\* navigation, whatever action, product list and page it carries; a step that
\* issues a cart call or a navigation is the handling of a reply of kind do.
C13_OnlyDoActs ==
  [][/\ RemoteReply /\ Encoded'.ty = "obj"
          /\ Get(Encoded', "event") \in {Str("message"), Str("suggest")} =>
            UNCHANGED <<cartCalls, fanouts, cartInvalidations, navigations>>
     /\ Len(cartCalls') # Len(cartCalls) \/ navigations' # navigations =>
            /\ RemoteReply
            /\ Encoded'.ty = "obj"
            /\ Get(Encoded', "event") = Str("do")]_vars

\* a suggest reply that carries a cart action, a page and product references
\* has been handled
C13_Witness ==
  /\ lastEvent.kind = "reply"
  /\ Get(Encoded, "event") = Str("suggest")
  /\ Get(Encoded, "action") = Str("add to cart")
  /\ Get(Encoded, "page") = Str("/cart")
  /\ Get(Encoded, "productList") = JArr(<<Ref3, Ref7>>)
  /\ Len(messages) = 3
  /\ messages[3].event = Str("suggest")
  /\ cartCalls = <<>>
  /\ navigations = <<>>

\* a `do` reply with the action `go to page`
GoToPage(p) ==
  p.ty = "obj" /\ Get(p, "event") = Str("do") /\ Get(p, "action") = Str("go to page")

\* C14 as stated: a do reply with action `go to page` issues exactly one
\* navigation, to the reply's page, when the reply has a page, none when it
\* has no page, and no cart call in either case.
C14_PagePresent ==
  [][RemoteReply /\ GoToPage(Encoded') =>
       /\ Get(Encoded', "page") # JUndef =>
            navigations' = Append(navigations, Get(Encoded', "page"))
       /\ Get(Encoded', "page") = JUndef => navigations' = navigations
       /\ UNCHANGED <<cartCalls, fanouts>>]_vars

\* C14, amended: a do reply with action `go to page` issues exactly one
\* navigation, to the reply's page, when the page is a string that is not
\* empty, none when the page is absent or the empty string, and no cart call
\* in either case.
C14_PageNotEmpty ==
  [][RemoteReply /\ GoToPage(Encoded') =>
       LET page == Get(Encoded', "page")
       IN /\ page.ty = "str" /\ page.s # <<>> =>
               navigations' = Append(navigations, page)
          /\ page = JUndef \/ page = JStr(<<>>) => navigations' = navigations
          /\ UNCHANGED <<cartCalls, fanouts>>]_vars

\* a `go to page` reply that also carries product references has navigated
C14_Witness ==
  /\ lastEvent.kind = "reply"
  /\ GoToPage(Encoded)
  /\ Get(Encoded, "productList") = JArr(<<Ref3, Ref9>>)
  /\ navigations = <<Str("/cart")>>
  /\ cartCalls = <<>>

\* a `do` reply whose action is none of the three the screen knows
UnknownAction(p) ==
  /\ p.ty = "obj"
  /\ Get(p, "event") = Str("do")
  /\ Get(p, "action") \notin {Str("add to cart"), Str("remove from cart"), Str("go to page")}

\* C15: a do reply with an action that is not recognized is logged with its
\* action, issues no cart call and no navigation, is no error (no apology),
\* and its assistant message is appended, whether its product list is empty
\* or not.
C15_UnknownActionNoOp ==
  [][RemoteReply /\ UnknownAction(Encoded') =>
       /\ \E j \in 1..Len(lastEvent'.logs) :
            /\ lastEvent'.logs[j].level = "log"
            /\ lastEvent'.logs[j].arg = Get(Encoded', "action")
       /\ \A j \in 1..Len(lastEvent'.logs) : lastEvent'.logs[j].level # "error"
       /\ UNCHANGED <<cartCalls, fanouts, cartInvalidations, navigations>>
       /\ mutStatus' = "success"
       /\ AppendsOneAssistant
       /\ Appended.content = Get(Encoded', "message")
       /\ Appended.event = Str("do")
       /\ Appended.action = Get(Encoded', "action")]_vars

\* the reply `dance` with two product references has been handled
C15_Witness ==
  /\ lastEvent.kind = "reply"
  /\ UnknownAction(Encoded)
  /\ Get(Encoded, "action") = Str("dance")
  /\ Get(Encoded, "productList") = JArr(<<Ref7, Ref3>>)
  /\ lastEvent.logs = <<Line("log", "Action:", Str("dance")),
                        Line("log", "Unknown action:", Str("dance"))>>
  /\ mutStatus = "success"
  /\ Len(messages) = 3
  /\ messages[3].action = Str("dance")
  /\ cartCalls = <<>>
  /\ navigations = <<>>

(***************************************************************************)
(* Claims about the conversation handlers (Spec).                          *)
(***************************************************************************)
\* the raw text of a persisted turn, undefined when it has no content entry
RawText(turn) == IF Len(turn.content) > 0 THEN turn.content[1].text ELSE JUndef
\* the state holds the id, title and status of conversation c
Names(c) ==
  /\ conversationId' = c.id
  /\ conversationTitle' = c.title
  /\ conversationStatus' = c.status

\* C16: load(conversation) sets the id, title and status to those of the
\* snapshot and replaces the transcript by one message per persisted turn, in
\* the order of the turns; a user turn becomes a message with role user, the
\* raw text as content and no event metadata.
C16_LoadReplaces ==
  [][\A c \in Conversations : LoadConversation(c) =>
       /\ Names(c)
       /\ Len(messages') = Len(c.messages)
       /\ \A j \in 1..Len(c.messages) :
            /\ messages'[j].role = c.messages[j].role
            /\ c.messages[j].role = "user" =>
                 messages'[j] = PlainMsg("user", RawText(c.messages[j]))]_vars

\* the content of this turn cannot be decoded: no JSON text, or no content
Undecodable(turn) ==
  \/ Len(turn.content) = 0
  \/ RawText(turn).ty = "str" /\ ~JSONParse(RawText(turn).s).ok

\* C17: decoding a turn never fails the load: every assistant turn whose
\* content cannot be decoded becomes an assistant message with the raw text,
\* and the load replaces the transcript by one message per turn.
C17_DecodeNeverFails ==
  [][\A c \in Conversations : LoadConversation(c) =>
       /\ Len(messages') = Len(c.messages)
       /\ \A j \in 1..Len(c.messages) :
            /\ messages'[j].role = c.messages[j].role
            /\ c.messages[j].role = "assistant" /\ Undecodable(c.messages[j]) =>
                 messages'[j] = PlainMsg("assistant", RawText(c.messages[j]))]_vars

\* C18: after startNew, from any state, the conversation has no id, an empty
\* title and the status active, and the transcript is the greeting alone, an
\* assistant message with no event.
C18_StartNew ==
  [][StartNewConversation =>
       /\ conversationId' = Null
       /\ conversationTitle' = <<>>
       /\ conversationStatus' = "active"
       /\ messages' = <<PlainMsg("assistant", Greeting)>>
       /\ messages'[1].role = "assistant"
       /\ messages'[1].event = JUndef]_vars

\* a reply had given the conversation an id, and startNew has run since
C18_Witness ==
  /\ lastEvent.kind = "reply"
  /\ wire = <<>>
  /\ conversationId = Null
  /\ conversationTitle = <<>>
  /\ conversationStatus = "active"
  /\ messages = <<PlainMsg("assistant", Greeting)>>

\* C19: a remote call carries the conversation id of the moment it is issued,
\* none in the New state; when its reply is handled the conversation id
\* becomes the id of the reply envelope: the id the server assigned for a send
\* issued in the New state, the id the call carried otherwise.
C19_IdOfSend ==
  [][/\ remoteCalls' # remoteCalls =>
          /\ remoteCalls'[Len(remoteCalls')].id = conversationId
          /\ wire'[Len(wire')].id = conversationId
     /\ RemoteReply =>
          /\ conversationId' \in {conv.id : conv \in Envelopes(wire[1].id)}
          /\ wire[1].id = Null => conversationId' \in ServerIds]_vars

\* the first send carried no id, the second the id the server assigned
C19_Witness ==
  /\ Len(remoteCalls) = 2
  /\ remoteCalls[1].id = Null
  /\ remoteCalls[2].id = 5
  /\ conversationId = 5

\* the changes of status the server may report for one conversation
StatusOrder ==
  {<<"active", "needs_human">>, <<"active", "archived">>, <<"needs_human", "archived">>}

\* C20: while the conversation id is unchanged, the status changes only from
\* active to needs_human, from active to archived or from needs_human to
\* archived, and only in the step that handles a reply.
C20_StatusFollowsServer ==
  [][conversationId' = conversationId /\ conversationStatus' # conversationStatus =>
       /\ <<conversationStatus, conversationStatus'>> \in StatusOrder
       /\ lastEvent'.kind = "reply" /\ wire' # wire]_vars

\* the calls of fan-out f, and those of them that have settled as `status`
CallsOf(f) == {k \in 1..Len(cartCalls) : cartCalls[k].fan = f}
CallsSettledAs(f, status) == {k \in CallsOf(f) : cartCalls[k].status = status}
\* the lines of level `level` that fan-out f has written
LinesOf(f, level) == {j \in 1..Len(cartLogs[f]) : cartLogs[f][j].level = level}

\* C21: the outcome of a fan-out (its success line and the cart refresh, or
\* its failure line) is declared only when no call of the fan-out is pending.
C21_OutcomeAfterAll ==
  \A f \in 1..Len(fanouts) :
    fanouts[f] # "pending" \/ cartLogs[f] # <<>> => CallsSettledAs(f, "pending") = {}

\* C22: when every call of a fan-out has settled, it has written one failure
\* line for each call that failed, and it has issued no call again.
C22_OneRecordPerFailure ==
  \A f \in 1..Len(fanouts) :
    CallsSettledAs(f, "pending") = {} =>
      /\ Cardinality(LinesOf(f, "error")) = Cardinality(CallsSettledAs(f, "failed"))
      /\ lastEvent.kind = "reply" =>
           Cardinality(CallsOf(f)) = Len(ReplyCartRequests(Reply))

\* sequence a is a prefix of sequence b
IsPrefix(a, b) == Len(a) <= Len(b) /\ SubSeq(b, 1, Len(a)) = a

\* C23: in every step other than startNew and load, the transcript before
\* the step is a prefix of the transcript after it and at most one message is
\* added; only startNew and load replace it.
C23_AppendOnly ==
  [][\/ IsPrefix(messages, messages') /\ Len(messages') <= Len(messages) + 1
     \/ StartNewConversation
     \/ \E c \in Conversations : LoadConversation(c)]_vars

\* a conversation was loaded, and a send and its reply were appended to it
C23_Witness ==
  /\ conversationId = ConvA.id
  /\ Len(messages) = Len(ConvA.messages) + 2
  /\ messages[1] = PlainMsg("user", Str("hi"))
  /\ messages[4] = PlainMsg("user", JStr(<<"salut">>))
  /\ messages[5] = PlainMsg("assistant", Str("Bonjour"))

(***************************************************************************)
(* The retry specification: sends one after the other, each replied to or  *)
(* failed, under the fairness that the remote call of a send settles       *)
(* (axios resolves or rejects the request).                                *)
(***************************************************************************)
RetryReplies == AsString({Bonjour}) \cup Unstructured({JStr(<<"null">>)})
SendSettles ==
  \E i \in 1..Len(wire) :
    \/ OnError(i)
    \/ \E w \in RetryReplies : \E conv \in Envelopes(wire[i].id) : OnSuccess(i, w, conv)
RetryNext ==
  \/ WelcomeEffect
  \/ ~WelcomePending /\ \E t \in Texts : SetInputText(t)
  \/ ~WelcomePending /\ Len(remoteCalls) < MaxSends /\ SendMessage
  \/ \E i \in 1..Len(wire) : OnError(i)
  \/ \E i \in 1..Len(wire) : \E w \in RetryReplies : \E conv \in Envelopes(wire[i].id) :
       OnSuccess(i, w, conv)
RetrySpec == Init /\ [][RetryNext]_vars /\ WF_vars(SendSettles)

\* C24: a send that is pending eventually is not; the step in which its
\* remote call replies or fails ends the pending state, and a send called
\* when none is pending, with a text that is not blank, is accepted and
\* issues a remote call.
C24_PendingEnds ==
  /\ IsPending ~> ~IsPending
  /\ [][/\ RemoteFailure \/ RemoteReply => mutStatus' \in {"success", "error"}
        /\ ~IsPending /\ Truthy(JStr(Trim(inputText))) /\ SendMessage =>
             /\ remoteCalls' =
                  Append(remoteCalls, [id |-> conversationId, text |-> inputText])
             /\ mutStatus' = "pending"]_vars

\* a send failed, and the send after it has been accepted
C24_Witness ==
  /\ lastEvent.kind = "failure"
  /\ Len(remoteCalls) = 2
  /\ Len(wire) = 1
  /\ IsPending

\* a field of a message is present
Present(v) == v # JUndef
\* two messages of the same shape: role, content, event kind, and the same
\* fields present among product list, action and page
SameShape(live, loaded) ==
  /\ live.role = loaded.role
  /\ live.content = loaded.content
  /\ live.event = loaded.event
  /\ Present(live.productList) <=> Present(loaded.productList)
  /\ Present(live.action) <=> Present(loaded.action)
  /\ Present(live.page) <=> Present(loaded.page)

\* C25: for every assistant payload, the message the reply handling appends
\* has the shape of the message that load builds from the turn that stores
\* the payload as JSON text.
C25_LoadAsLive ==
  [][RemoteReply /\ Encoded'.ty = "obj" =>
       /\ AppendsOneAssistant
       /\ SameShape(Appended, FormatAssistant(JStr(JSONStringify(Encoded'))))]_vars

\* C26: after load(c), either the id, title, status and transcript all come
\* from c, or all four are as they were.
C26_AllOrNothing ==
  [][\A c \in Conversations : LoadConversation(c) =>
       \/ /\ Names(c)
          /\ Len(messages') = Len(c.messages)
          /\ \A j \in 1..Len(c.messages) : messages'[j].role = c.messages[j].role
       \/ UNCHANGED <<conversationId, conversationTitle, conversationStatus,
                      messages>>]_vars

\* C27: the reply of a send issued under one conversation, handled when the
\* screen holds another (a load or a startNew ran meanwhile), appends nothing
\* to the transcript and does not change the conversation id.
C27_NoLateReply ==
  [][RemoteReply /\ wire[1].conv # ConvNow =>
       /\ messages' = messages
       /\ conversationId' = conversationId]_vars

(***************************************************************************)
(* The browsing specification: the list of conversations is opened, the    *)
(* catalog arrives, conversations are loaded and started, around one send  *)
(* whose reply is a `do` event.                                            *)
(***************************************************************************)
BrowseReplies == AsObject({DoAdd3, DoGoto})
BrowseNext ==
  \/ WelcomeEffect
  \/ ~WelcomePending /\ \E t \in SomeTexts : SetInputText(t)
  \/ ~WelcomePending /\ ShowList
  \/ \E c \in Catalogs : ProductsFetched(c)
  \/ ~WelcomePending /\ remoteCalls = <<>> /\ SendMessage
  \/ \E i \in 1..Len(wire) : \E w \in BrowseReplies : OnSuccess(i, w, ReplyEnvelope)
  \/ \E k \in 1..Len(cartCalls) : CartCallSucceeds(k)
  \/ ~WelcomePending /\ StartNewConversation
  \/ ~WelcomePending /\ \E c \in SavedConversations : LoadConversation(c)
BrowseSpec == Init /\ [][BrowseNext]_vars

\* C28: load issues no cart call, no cart refresh and no navigation, whatever
\* the persisted turns; it changes only the id, title, status, transcript and
\* the visibility of the list of conversations.
C28_LoadNoReplay ==
  [][\A c \in SavedConversations : LoadConversation(c) =>
       /\ UNCHANGED <<cartCalls, fanouts, cartInvalidations, cartLogs, navigations>>
       /\ UNCHANGED <<inputText, products, mutStatus, wire, remoteCalls, lastEvent>>
       /\ UNCHANGED otherVars]_vars

\* the conversation whose turns are `remove from cart` and `go to page` has
\* been loaded from the list, after a reply had navigated once
C28_Witness ==
  /\ conversationId = ConvD.id
  /\ showConversationsList = FALSE
  /\ Len(messages) = 4
  /\ messages[2].action = Str("remove from cart")
  /\ messages[4].action = Str("go to page")
  /\ messages[4].page = Str("/cart")
  /\ lastEvent.kind = "reply"
  /\ navigations = <<Str("/cart")>>
  /\ cartCalls = <<>>
  /\ cartInvalidations = 0

(***************************************************************************)
(* The login screen, src/app/auth/login.jsx lines 36-174 (the same code is *)
(* in src/app/(tabs)/auth/account.tsx lines 565-700): the one-time code is *)
(* sent, a countdown of one tick per second runs on an interval, and the   *)
(* code can be sent again at the end of the countdown.  An interval is     *)
(* named by its id; 0 is the empty ref.                                    *)
(***************************************************************************)
\* line 89: setRemainingTime(60)
TimerStart == 60
\* the number of sendOTP requests of a behaviour
MaxOtpSends == 2

\* lines 84-100, the part of startTimer outside React state: the interval of
\* the ref is cleared and the ref takes a new interval
StartTimerIntervals ==
  /\ intervalRef' = intervalRef + 1
  /\ activeIntervals' = (activeIntervals \ {intervalRef}) \cup {intervalRef + 1}

\* lines 102-108: the form is submitted; nothing happens while loading
SendCredentialsAndOTP ==
  /\ mounted
  /\ sendOTPCalls < MaxOtpSends
  /\ IF loading
       THEN UNCHANGED otpVars
       ELSE /\ loading' = TRUE
            /\ otpRequest' = "send"
            /\ sendOTPCalls' = sendOTPCalls + 1
            /\ UNCHANGED <<mounted, otpModalVisible, remainingTime, intervalRef,
                           activeIntervals>>
  /\ UNCHANGED <<chatVars, listVars>>

\* lines 125-131: the resend button; nothing happens during the countdown or
\* while loading
ResendOTP ==
  /\ mounted
  /\ otpModalVisible
  /\ sendOTPCalls < MaxOtpSends
  /\ IF remainingTime > 0 \/ loading
       THEN UNCHANGED otpVars
       ELSE /\ loading' = TRUE
            /\ otpRequest' = "resend"
            /\ sendOTPCalls' = sendOTPCalls + 1
            /\ UNCHANGED <<mounted, otpModalVisible, remainingTime, intervalRef,
                           activeIntervals>>
  /\ UNCHANGED <<chatVars, listVars>>

\* lines 145-158: the code is submitted; nothing happens while loading
SubmitOtp ==
  /\ mounted
  /\ otpModalVisible
  /\ IF loading
       THEN UNCHANGED otpVars
       ELSE /\ loading' = TRUE
            /\ otpRequest' = "login"
            /\ UNCHANGED <<mounted, otpModalVisible, remainingTime, intervalRef,
                           activeIntervals, sendOTPCalls>>
  /\ UNCHANGED <<chatVars, listVars>>

\* lines 109-113, 121-122 and 133-134, 141-142: sendOTP resolves.  The
\* request is not cancelled when the screen goes away: the continuation runs
\* startTimer all the same, and only the state setters are without effect on
\* an unmounted component.
SendOTPSucceeds ==
  /\ otpRequest \in {"send", "resend"}
  /\ StartTimerIntervals
  /\ otpRequest' = "none"
  /\ IF mounted
       THEN /\ otpModalVisible' = (otpModalVisible \/ otpRequest = "send")
            /\ remainingTime' = TimerStart
            /\ loading' = FALSE
       ELSE UNCHANGED <<otpModalVisible, remainingTime, loading>>
  /\ UNCHANGED <<mounted, sendOTPCalls>>
  /\ UNCHANGED <<chatVars, listVars>>

\* lines 114-122 and 135-142: sendOTP rejects
SendOTPFails ==
  /\ otpRequest \in {"send", "resend"}
  /\ otpRequest' = "none"
  /\ loading' = (loading /\ ~mounted)
  /\ UNCHANGED <<mounted, otpModalVisible, remainingTime, intervalRef,
                 activeIntervals, sendOTPCalls>>
  /\ UNCHANGED <<chatVars, listVars>>

\* lines 158-174: the login request settles; on success the modal closes
LoginSettles(ok) ==
  /\ otpRequest = "login"
  /\ otpRequest' = "none"
  /\ loading' = (loading /\ ~mounted)
  /\ otpModalVisible' = (otpModalVisible /\ ~(ok /\ mounted))
  /\ UNCHANGED <<mounted, remainingTime, intervalRef, activeIntervals,
                 sendOTPCalls>>
  /\ UNCHANGED <<chatVars, listVars>>

\* lines 91-99: one tick of the interval id.  On a mounted screen the updater
\* runs on the current value.  On an unmounted one React may run the updater
\* on the last value or drop the update: both outcomes are kept.
Tick(id) ==
  /\ id \in activeIntervals
  /\ \/ /\ remainingTime <= 1
        /\ activeIntervals' = activeIntervals \ {intervalRef}
        /\ remainingTime' = IF mounted THEN 0 ELSE remainingTime
     \/ /\ remainingTime > 1
        /\ remainingTime' = IF mounted THEN remainingTime - 1 ELSE remainingTime
        /\ UNCHANGED activeIntervals
     \/ /\ ~mounted
        /\ UNCHANGED <<remainingTime, activeIntervals>>
  /\ UNCHANGED <<mounted, otpModalVisible, loading, intervalRef, otpRequest,
                 sendOTPCalls>>
  /\ UNCHANGED <<chatVars, listVars>>

\* lines 76-82: the screen goes away; the cleanup clears the interval of the
\* ref
Unmount ==
  /\ mounted
  /\ mounted' = FALSE
  /\ activeIntervals' = activeIntervals \ {intervalRef}
  /\ UNCHANGED <<otpModalVisible, remainingTime, loading, intervalRef,
                 otpRequest, sendOTPCalls>>
  /\ UNCHANGED <<chatVars, listVars>>

OtpNext ==
  \/ SendCredentialsAndOTP
  \/ ResendOTP
  \/ SubmitOtp
  \/ SendOTPSucceeds
  \/ SendOTPFails
  \/ \E ok \in BOOLEAN : LoginSettles(ok)
  \/ \E id \in activeIntervals : Tick(id)
  \/ Unmount
OtpSpec == Init /\ [][OtpNext]_vars

\* the countdown stays within 0..60
C29_Range == remainingTime \in 0..TimerStart
\* each successful send sets the countdown to 60
C29_SetBySend ==
  [][SendOTPSucceeds /\ mounted => remainingTime' = TimerStart]_vars
\* a tick takes one off the countdown until 0; at 0 the interval has stopped
C29_TickDown ==
  [][mounted /\ (\E id \in activeIntervals : Tick(id)) =>
       /\ remainingTime > 0
       /\ remainingTime' = remainingTime - 1
       /\ remainingTime' = 0 => activeIntervals' = {}]_vars
\* resendOTP issues a request only at the end of the countdown and when no
\* request is loading
C29_ResendGuard ==
  [][ResendOTP /\ sendOTPCalls' # sendOTPCalls =>
       remainingTime = 0 /\ ~loading]_vars
\* at most one interval is active
C29_OneInterval == Cardinality(activeIntervals) <= 1
\* no interval is active once the screen is unmounted
C29_Released == ~mounted => activeIntervals = {}

\* C29: the countdown stays within 0..60, is set to 60 by each successful
\* send, goes down by one per tick until 0 and then stops; resendOTP issues a
\* request only when the countdown is 0 and nothing is loading; at most one
\* interval is active, and none is left once the screen is unmounted.
C29_Countdown ==
  /\ []C29_Range
  /\ C29_SetBySend
  /\ C29_TickDown
  /\ C29_ResendGuard
  /\ []C29_OneInterval
  /\ []C29_Released

(***************************************************************************)
(* The list of products, src/unnamed/part_002 lines 14-96 and 293-369: the *)
(* products come from the network or from the storage of the device, which *)
(* keeps the last answer of the server and the time it was saved.  The     *)
(* clock is read in milliseconds and advances by half the expiration.      *)
(***************************************************************************)
\* line 21
CACHE_EXPIRATION == 24 * 60 * 60 * 1000
\* the step of the clock
HalfDay == CACHE_EXPIRATION \div 2
\* the number of steps of the clock
MaxHalfDays == 3
\* the number of requests to the server
MaxFetches == 2
\* the answers of the server
ServerData == {"catalog1", "catalog2"}

Digits == <<"0", "1", "2", "3", "4", "5", "6", "7", "8", "9">>
\* line 69: Date.now().toString()
RECURSIVE NumToString(_)
NumToString(n) ==
  IF n < 10 THEN <<Digits[n + 1]>>
  ELSE Append(NumToString(n \div 10), Digits[(n % 10) + 1])
DigitValue(d) == CHOOSE v \in 0..9 : Digits[v + 1] = d
\* line 90: parseInt(timestamp), on the decimal text of a natural number
RECURSIVE ParseInt(_)
ParseInt(text) ==
  IF Len(text) = 1 THEN DigitValue(text[1])
  ELSE ParseInt(SubSeq(text, 1, Len(text) - 1)) * 10 + DigitValue(text[Len(text)])

\* lines 85-96: no timestamp (the empty text here), no valid cache
IsCacheValid ==
  IF storedTimestamp = <<>> THEN FALSE
  ELSE now - ParseInt(storedTimestamp) < CACHE_EXPIRATION

\* lines 320-352: fetchProducts up to its request to the server, run by the
\* effect with the connection state of its render; base is the list on
\* screen
FetchProducts(connected, offlineMode, base) ==
  LET cachedProducts == storedProducts
  IN IF (offlineMode \/ ~IsCacheValid) /\ cachedProducts # NoData
       THEN /\ listProducts' = cachedProducts
            /\ fetchState' = "idle"
            /\ UNCHANGED <<listError, networkFetches>>
       ELSE IF connected
         THEN /\ listProducts' = base
              /\ fetchState' = "fetching"
              /\ networkFetches' = networkFetches + 1
              /\ UNCHANGED listError
         ELSE IF cachedProducts # NoData
           THEN /\ listProducts' = cachedProducts
                /\ fetchState' = "idle"
                /\ UNCHANGED <<listError, networkFetches>>
           ELSE /\ listProducts' = base
                /\ listError' = TRUE
                /\ fetchState' = "idle"
                /\ UNCHANGED networkFetches

\* lines 294-298, 319-369: the screen is mounted with its initial state and
\* the effect runs
ProductsMount ==
  /\ fetchState = "unmounted"
  /\ networkFetches < MaxFetches
  /\ isConnected' = TRUE
  /\ isOfflineMode' = FALSE
  /\ FetchProducts(TRUE, FALSE, NoData)
  /\ UNCHANGED <<storedProducts, storedTimestamp, now>>
  /\ UNCHANGED <<chatVars, otpVars>>

\* the screen goes away between two requests
ProductsUnmount ==
  /\ fetchState = "idle"
  /\ fetchState' = "unmounted"
  /\ listProducts' = NoData
  /\ listError' = FALSE
  /\ UNCHANGED <<storedProducts, storedTimestamp, now, isConnected,
                 isOfflineMode, networkFetches>>
  /\ UNCHANGED <<chatVars, otpVars>>

\* lines 308-317, 368: the connection changes; offline mode is set and never
\* reset, and the effect runs again when isConnected has changed
NetInfoChange(connected) ==
  /\ fetchState = "idle"
  /\ networkFetches < MaxFetches
  /\ isConnected' = connected
  /\ isOfflineMode' = (isOfflineMode \/ ~connected)
  /\ IF connected # isConnected
       THEN FetchProducts(connected, isOfflineMode \/ ~connected, listProducts)
       ELSE UNCHANGED <<listProducts, listError, fetchState, networkFetches>>
  /\ UNCHANGED <<storedProducts, storedTimestamp, now>>
  /\ UNCHANGED <<chatVars, otpVars>>

\* lines 337-345 and 65-73: the server answers; the answer is shown and saved
\* with the time
NetworkOk(data) ==
  /\ fetchState = "fetching"
  /\ listProducts' = data
  /\ storedProducts' = data
  /\ storedTimestamp' = NumToString(now)
  /\ fetchState' = "idle"
  /\ UNCHANGED <<now, isConnected, isOfflineMode, listError, networkFetches>>
  /\ UNCHANGED <<chatVars, otpVars>>

\* lines 338-340 and 353-362: the request fails; the cache is shown if any
NetworkFails ==
  /\ fetchState = "fetching"
  /\ IF storedProducts # NoData
       THEN listProducts' = storedProducts /\ UNCHANGED listError
       ELSE listError' = TRUE /\ UNCHANGED listProducts
  /\ fetchState' = "idle"
  /\ UNCHANGED <<storedProducts, storedTimestamp, now, isConnected,
                 isOfflineMode, networkFetches>>
  /\ UNCHANGED <<chatVars, otpVars>>

\* line 90: Date.now() has advanced
ClockAdvances ==
  /\ now < MaxHalfDays * HalfDay
  /\ now' = now + HalfDay
  /\ UNCHANGED <<storedProducts, storedTimestamp, isConnected, isOfflineMode,
                 listProducts, listError, fetchState, networkFetches>>
  /\ UNCHANGED <<chatVars, otpVars>>

ListNext ==
  \/ ProductsMount
  \/ ProductsUnmount
  \/ \E connected \in BOOLEAN : NetInfoChange(connected)
  \/ \E data \in ServerData : NetworkOk(data)
  \/ NetworkFails
  \/ ClockAdvances
ListSpec == Init /\ [][ListNext]_vars

\* a run of fetchProducts: at mount, and when the connection has changed
FetchRuns ==
  \/ ProductsMount
  \/ \E connected \in BOOLEAN :
       connected # isConnected /\ NetInfoChange(connected)

\* C30: in a run of fetchProducts with cached products, when the device is
\* offline or the cache is younger than 24 hours, the cached products are
\* shown and no request goes to the server; a request goes to the server only
\* when the device is online and the cache is missing or expired.
C30_CacheFirst ==
  [][FetchRuns =>
       LET cached == storedProducts # NoData
           offline == ~isConnected'
           fetched == networkFetches' # networkFetches
       IN /\ cached /\ (offline \/ IsCacheValid) =>
               listProducts' = storedProducts /\ ~fetched
          /\ fetched => ~offline /\ (~cached \/ ~IsCacheValid)]_vars
====
